---- MODULE Spec2Model ----
(***************************************************************************)
(* Model of src/dsp/cost_sse2.c: the SSE2 residual-coefficient scan        *)
(* detector (SetResidualCoeffsSSE2), the SSE2 residual cost estimator      *)
(* (GetResidualCostSSE2) and the dispatch initializer                      *)
(* (VP8EncDspCostInitSSE2), for a build with WEBP_USE_SSE2 defined.        *)
(***************************************************************************)
EXTENDS Integers, Sequences, FiniteSets, TLC

VARIABLES
  coeffs,        \* the caller's block of 16 int16_t coefficients
  first,         \* res->first
  last,          \* res->last
  resCoeffs,     \* res->coeffs (NoBlock until SetResidualCoeffsSSE2 stores it)
  ctx0,          \* argument of the GetResidualCostSSE2 call
  cost,          \* value returned by GetResidualCostSSE2
  n,             \* position reached after the loop of GetResidualCostSSE2
  flevel,        \* the full level read at line 97
  p0,            \* the probability read at line 53
  t0,            \* the cost row selected at line 54, as <<index, context>>
  pc,            \* position of the thread that costs the block
  VP8SetResidualCoeffs,   \* dispatch pointer
  VP8GetResidualCost,     \* dispatch pointer
  ipc,           \* position of every thread running VP8EncDspCostInitSSE2
  returned,      \* TRUE once some VP8EncDspCostInitSSE2 call has returned
  rpc,           \* position of every reader of the dispatch pointers
  rseen,         \* the pair of pointers every reader has loaded
  rafter,        \* TRUE for a reader whose read began after an initializer returned
  v,             \* one int16_t lane fed to the precomputation
  lane           \* the precomputed ctxs/levels/abs_levels of that lane

vars == <<coeffs, first, last, resCoeffs, ctx0, cost, n, flevel, p0,
          t0, pc,
          VP8SetResidualCoeffs, VP8GetResidualCost, ipc, returned, rpc, rseen,
          rafter, v, lane>>

costVars == <<coeffs, first, last, resCoeffs, ctx0, cost, n, flevel, p0, t0,
              pc>>
dispVars == <<VP8SetResidualCoeffs, VP8GetResidualCost, ipc, returned, rpc,
              rseen, rafter>>
laneVars == <<v, lane>>

----------------------------------------------------------------------------
(* Bounds of the model *)

MaxRun == 3            \* consecutive positions of a block that may be nonzero
NumInitThreads == 2    \* threads calling VP8EncDspCostInitSSE2
NumReaders == 2        \* threads reading the dispatch pointers

(* Program constants *)

\* line 49: the length of a block
NumCoeffs == 16
\* line 67, the value named at line 78
MAX_VARIABLE_LEVEL == 67
\* kCst2 one too large
kCst2_Wide == 2 + 1

\* line 66
kCst2 == 2

Pos == 0 .. (NumCoeffs - 1)
Ctxs == 0 .. 2
CoeffVals == {0, 1, -2, 68}
Mags == {1, 2, 3, 67, 68, 69}
NoBlock == <<>>

----------------------------------------------------------------------------
(* Fixed-width arithmetic *)

Pow2(k) == 2 ^ k

ToU16(x) == x % 65536

ToS16(x) == LET u == x % 65536 IN IF u >= 32768 THEN u - 65536 ELSE u

Min(a, b) == IF a < b THEN a ELSE b

Max(a, b) == IF a > b THEN a ELSE b

RECURSIVE BitOr(_, _)
BitOr(a, b) ==
  IF a = 0 THEN b
  ELSE IF b = 0 THEN a
  ELSE Max(a % 2, b % 2) + 2 * BitOr(a \div 2, b \div 2)

RECURSIVE Log2Floor(_)
Log2Floor(x) == IF x <= 1 THEN 0 ELSE 1 + Log2Floor(x \div 2)

\* A uint32_t is kept as its two 16-bit halves, [hi, lo]
U32(x) == [hi |-> 0, lo |-> x]

Shl16(a) == [hi |-> a.lo, lo |-> 0]

Or32(a, b) == [hi |-> BitOr(a.hi, b.hi), lo |-> BitOr(a.lo, b.lo)]

Not32(a) == [hi |-> 65535 - a.hi, lo |-> 65535 - a.lo]

Zero32 == [hi |-> 0, lo |-> 0]

\* BitsLog2Floor(n) of utils.h: position of the highest set bit, n # 0
BitsLog2Floor(a) == IF a.hi # 0 THEN 16 + Log2Floor(a.hi) ELSE Log2Floor(a.lo)

----------------------------------------------------------------------------
(* SSE2 intrinsics, one 128-bit register = 8 lanes of 16 bits (0..7) *)

Load(cf, base) == [i \in 0 .. 7 |-> cf[base + i]]

mm_cmpeq_epi16(a, b) == [i \in 0 .. 7 |-> IF a[i] = b[i] THEN 65535 ELSE 0]

ByteOf(r, j) == IF j % 2 = 0 THEN ToU16(r[j \div 2]) % 256
                             ELSE ToU16(r[j \div 2]) \div 256

RECURSIVE MovemaskFrom(_, _)
MovemaskFrom(r, j) ==
  IF j > 15 THEN 0
  ELSE (ByteOf(r, j) \div 128) * Pow2(j) + MovemaskFrom(r, j + 1)

mm_movemask_epi8(r) == MovemaskFrom(r, 0)

mm_setzero == [i \in 0 .. 7 |-> 0]

mm_min_epi16(a, b) == [i \in 0 .. 7 |-> Min(a[i], b[i])]

mm_max_epi16(a, b) == [i \in 0 .. 7 |-> Max(a[i], b[i])]

mm_sub_epi16(a, b) == [i \in 0 .. 7 |-> ToS16(a[i] - b[i])]

\* a pack that truncates instead of saturating
SatS8_Wrap(x) == LET u == x % 256 IN IF u >= 128 THEN u - 256 ELSE u

\* line 76: signed saturation to 8 bits
SatS8(x) == IF x > 127 THEN 127 ELSE IF x < -128 THEN -128 ELSE x

\* a register of 16 unsigned bytes (0..15): a's lanes, then b's lanes
mm_packs_epi16(a, b) ==
  [j \in 0 .. 15 |-> IF j < 8 THEN SatS8(a[j]) % 256 ELSE SatS8(b[j - 8]) % 256]

mm_min_epu8(r, k) == [j \in 0 .. 15 |-> Min(r[j], k)]

----------------------------------------------------------------------------
(* Tables the estimator reads *)

\* VP8EncBands[16 + 1]: scan position -> band, with the sentinel at 16
VP8EncBands ==
  [i \in 0 .. 16 |-> <<0, 1, 2, 3, 6, 4, 5, 6, 6, 6, 6, 6, 6, 6, 6, 7, 0>>[i + 1]]

\* VP8EntropyCost[x], about -256 * log2(x / 256), in 1/256 bit
VP8EntropyCost(x) ==
  IF x = 0 THEN 2048
  ELSE LET k == Log2Floor(x)
       IN  256 * (8 - k) - (256 * (x - Pow2(k))) \div Pow2(k)

VP8BitCost(bit, proba) == VP8EntropyCost(IF bit = 1 THEN 255 - proba ELSE proba)

\* VP8LevelFixedCosts[level]
VP8LevelFixedCosts(m) ==
  IF m = 0 THEN 0 ELSE 256 + 88 * Log2Floor(m) + 19 * (m % 5)

\* res->prob[i][c][0]: the caller's probability table
ProbAt(i, c) == (29 * i + 101 * c + 90) % 256

\* res->cost[i][c][l]: the caller's cost table
CostAt(i, c, l) == (397 * i + 2039 * c + 7919 * l + 1013) % 4093

----------------------------------------------------------------------------
(* SetResidualCoeffsSSE2 *)

\* DetectMask with the upper eight results left unshifted
DetectMask_NoShift(cf) ==
  LET m0 == mm_cmpeq_epi16(Load(cf, 0), mm_setzero)
      m1 == mm_cmpeq_epi16(Load(cf, 8), mm_setzero)
  IN  Not32(Or32(U32(mm_movemask_epi8(m1)), U32(mm_movemask_epi8(m0))))

\* lines 38-39
DetectMask(cf) ==
  LET c0 == Load(cf, 0)
      c1 == Load(cf, 8)
      zero == mm_setzero
      m0 == mm_cmpeq_epi16(c0, zero)
      m1 == mm_cmpeq_epi16(c1, zero)
  IN  Not32(Or32(Shl16(U32(mm_movemask_epi8(m1))), U32(mm_movemask_epi8(m0))))

\* line 44
LastOfMask(mask) == IF mask # Zero32 THEN BitsLog2Floor(mask) \div 2 ELSE -1

SetResidualCoeffsSSE2(cf) == LastOfMask(DetectMask(cf))

\* line 43
DetectAssert(f, cf) == f = 0 \/ cf[0] = 0

----------------------------------------------------------------------------
(* GetResidualCostSSE2 *)

\* lines 64-85: the three arrays the block is reduced to
Precompute(cf) ==
  LET zero == mm_setzero
      c0 == Load(cf, 0)
      c1 == Load(cf, 8)
      D0_m == mm_min_epi16(c0, zero)
      D0_p == mm_max_epi16(c0, zero)
      D1_m == mm_min_epi16(c1, zero)
      D1_p == mm_max_epi16(c1, zero)
      E0 == mm_sub_epi16(D0_p, D0_m)
      E1 == mm_sub_epi16(D1_p, D1_m)
      F == mm_packs_epi16(E0, E1)
      G == mm_min_epu8(F, kCst2)
      H == mm_min_epu8(F, MAX_VARIABLE_LEVEL)
  IN  [ctxs |-> G,
       levels |-> H,
       abs_levels |-> [j \in 0 .. 15 |-> IF j < 8 THEN ToU16(E0[j])
                                                  ELSE ToU16(E1[j - 8])]]

\* BaseCost added for every context
BaseCost_Always(c, p) == VP8BitCost(1, p)

\* line 58
BaseCost(c, p) == IF c = 0 THEN VP8BitCost(1, p) ELSE 0

\* NextBand reading the band of the current position
NextBand_Same(i) == VP8EncBands[i]

\* line 90 and line 101
NextBand(i) == VP8EncBands[i + 1]

\* CostLoop leaving one position early
RECURSIVE CostLoop_Short(_, _, _, _, _)
CostLoop_Short(pre, l, i, acc, t) ==
  IF i < l - 1
    THEN CostLoop_Short(pre, l, i + 1,
                        acc + VP8LevelFixedCosts(pre.abs_levels[i])
                            + CostAt(t[1], t[2], pre.levels[i]),
                        <<VP8EncBands[i + 1], pre.ctxs[i]>>)
    ELSE [n |-> i, cost |-> acc, t |-> t]

\* lines 86-93: the state <<n, cost, t>> after the loop
RECURSIVE CostLoop(_, _, _, _, _)
CostLoop(pre, l, i, acc, t) ==
  IF i < l
    THEN CostLoop(pre, l, i + 1,
                  acc + VP8LevelFixedCosts(pre.abs_levels[i])
                      + CostAt(t[1], t[2], pre.levels[i]),
                  <<NextBand(i), pre.ctxs[i]>>)
    ELSE [n |-> i, cost |-> acc, t |-> t]

\* lines 100-105
LastCost(pre, i) ==
  IF i < 15 THEN VP8BitCost(0, ProbAt(NextBand(i), pre.ctxs[i])) ELSE 0

\* line 53
InitialProb(f, c) == ProbAt(f, c)

\* InitialRow ignoring the caller's context
InitialRow_Ctx0(f, c) == <<f, 0>>

\* line 54
InitialRow(f, c) == <<f, c>>

\* EmptyCost returned on top of the base cost of line 58
EmptyCost_WithBase(c, p) == (IF c = 0 THEN VP8BitCost(1, p) ELSE 0) + VP8BitCost(0, p)

\* lines 60-62
EmptyCost(c, p) == VP8BitCost(0, p)

\* the whole call: ok is FALSE when the assertion of line 98 fails
GetResidualCostSSE2(c, f, l, cf) ==
  LET p == InitialProb(f, c)
      t == InitialRow(f, c)
  IN  IF l < 0
        THEN [ok |-> TRUE, cost |-> EmptyCost(c, p), n |-> f, flevel |-> 0,
              p0 |-> p, t0 |-> t]
        ELSE LET pre == Precompute(cf)
                 lp == CostLoop(pre, l, f, BaseCost(c, p), t)
                 fl == pre.abs_levels[lp.n]
             IN  [ok |-> fl # 0, flevel |-> fl,
                  cost |-> lp.cost + VP8LevelFixedCosts(fl)
                           + CostAt(lp.t[1], lp.t[2], pre.levels[lp.n])
                           + LastCost(pre, lp.n),
                  n |-> lp.n, p0 |-> p, t0 |-> t]

----------------------------------------------------------------------------
(* The thread that scans and costs one block *)

\* the blocks the quantizer hands over: zero outside one run of MaxRun positions
Blocks ==
  {[i \in Pos |-> IF i >= q /\ i < q + MaxRun THEN w[i - q + 1] ELSE 0] :
     q \in Pos, w \in [1 .. MaxRun -> CoeffVals]}

DispOff ==
  /\ VP8SetResidualCoeffs = "off"
  /\ VP8GetResidualCost = "off"
  /\ ipc = <<>>
  /\ returned = FALSE
  /\ rpc = <<>>
  /\ rseen = <<>>
  /\ rafter = <<>>

LaneOff == v = 0 /\ lane = <<>>

CostOff ==
  /\ coeffs = NoBlock
  /\ first = 0
  /\ last = -1
  /\ resCoeffs = NoBlock
  /\ ctx0 = 0
  /\ cost = 0
  /\ n = 0
  /\ flevel = 0
  /\ p0 = 0
  /\ t0 = <<0, 0>>
  /\ pc = "off"

Init ==
  /\ coeffs \in Blocks
  /\ first \in Pos
  /\ last = -1
  /\ resCoeffs = NoBlock
  /\ ctx0 = 0
  /\ cost = 0
  /\ n = 0
  /\ flevel = 0
  /\ p0 = 0
  /\ t0 = <<0, 0>>
  /\ pc = "start"
  /\ DispOff
  /\ LaneOff

\* VP8SetResidualCoeffs(coeffs, res); a failed assert aborts a debug build
\* and is compiled out of a release build
SetResidualCoeffs ==
  /\ pc = "start"
  /\ \/ /\ last' = SetResidualCoeffsSSE2(coeffs)
        /\ resCoeffs' = coeffs
        /\ pc' = "detected"
     \/ /\ ~DetectAssert(first, coeffs)
        /\ pc' = "aborted"
        /\ UNCHANGED <<last, resCoeffs>>
  /\ UNCHANGED <<coeffs, first, ctx0, cost, n, flevel, p0, t0>>
  /\ UNCHANGED <<dispVars, laneVars>>

\* VP8GetResidualCost(ctx0, res)
GetResidualCost ==
  /\ pc = "detected"
  /\ \E c \in Ctxs :
       LET r == GetResidualCostSSE2(c, first, last, resCoeffs)
       IN  /\ ctx0' = c
           /\ n' = r.n
           /\ flevel' = r.flevel
           /\ p0' = r.p0
           /\ t0' = r.t0
           /\ \/ /\ cost' = r.cost
                 /\ pc' = "costed"
              \/ /\ ~r.ok
                 /\ cost' = cost
                 /\ pc' = "aborted"
  /\ UNCHANGED <<coeffs, first, last, resCoeffs>>
  /\ UNCHANGED <<dispVars, laneVars>>

Next == SetResidualCoeffs \/ GetResidualCost

Spec == Init /\ [][Next]_vars

----------------------------------------------------------------------------
(* VP8EncDspCostInitSSE2 and the readers of the two dispatch pointers *)

InitThreads == 1 .. NumInitThreads
Readers == 1 .. NumReaders

\* what the pointers hold before any SSE2 initializer ran: nothing, or the
\* portable implementations
PriorStrategies == {<<"NULL", "NULL">>, <<"SetResidualCoeffsC", "GetResidualCostC">>}

\* a selection that depends on the calling thread
SelectedSetResidualCoeffs_PerThread(t) ==
  IF t = 1 THEN "SetResidualCoeffsSSE2" ELSE "SetResidualCoeffsC"

\* line 118: the value thread t stores
SelectedSetResidualCoeffs(t) == "SetResidualCoeffsSSE2"

\* a selection that depends on the calling thread
SelectedGetResidualCost_PerThread(t) ==
  IF t = 1 THEN "GetResidualCostSSE2" ELSE "GetResidualCostC"

\* line 119: the value thread t stores
SelectedGetResidualCost(t) == "GetResidualCostSSE2"

InitDispatch ==
  /\ \E prior \in PriorStrategies :
       /\ VP8SetResidualCoeffs = prior[1]
       /\ VP8GetResidualCost = prior[2]
  /\ ipc = [t \in InitThreads |-> "idle"]
  /\ returned = FALSE
  /\ rpc = [r \in Readers |-> "idle"]
  /\ rseen = [r \in Readers |-> <<"none", "none">>]
  /\ rafter = [r \in Readers |-> FALSE]
  /\ CostOff
  /\ LaneOff

\* thread t calls VP8EncDspCostInitSSE2
Invoke(t) ==
  /\ ipc[t] = "idle"
  /\ ipc' = [ipc EXCEPT ![t] = "line118"]
  /\ UNCHANGED <<VP8SetResidualCoeffs, VP8GetResidualCost, returned, rpc, rseen,
                 rafter>>
  /\ UNCHANGED <<costVars, laneVars>>

\* line 118
StoreSetResidualCoeffs(t) ==
  /\ ipc[t] = "line118"
  /\ VP8SetResidualCoeffs' = SelectedSetResidualCoeffs(t)
  /\ ipc' = [ipc EXCEPT ![t] = "line119"]
  /\ UNCHANGED <<VP8GetResidualCost, returned, rpc, rseen, rafter>>
  /\ UNCHANGED <<costVars, laneVars>>

\* line 119, and the return
StoreGetResidualCost(t) ==
  /\ ipc[t] = "line119"
  /\ VP8GetResidualCost' = SelectedGetResidualCost(t)
  /\ ipc' = [ipc EXCEPT ![t] = "idle"]
  /\ returned' = TRUE
  /\ UNCHANGED <<VP8SetResidualCoeffs, rpc, rseen, rafter>>
  /\ UNCHANGED <<costVars, laneVars>>

\* reader r loads VP8SetResidualCoeffs
LoadSetResidualCoeffs(r) ==
  /\ rpc[r] = "idle"
  /\ rseen' = [rseen EXCEPT ![r] = <<VP8SetResidualCoeffs, "none">>]
  /\ rafter' = [rafter EXCEPT ![r] = returned]
  /\ rpc' = [rpc EXCEPT ![r] = "half"]
  /\ UNCHANGED <<VP8SetResidualCoeffs, VP8GetResidualCost, ipc, returned>>
  /\ UNCHANGED <<costVars, laneVars>>

\* reader r loads VP8GetResidualCost
LoadGetResidualCost(r) ==
  /\ rpc[r] = "half"
  /\ rseen' = [rseen EXCEPT ![r] = <<rseen[r][1], VP8GetResidualCost>>]
  /\ rpc' = [rpc EXCEPT ![r] = "read"]
  /\ UNCHANGED <<VP8SetResidualCoeffs, VP8GetResidualCost, ipc, returned, rafter>>
  /\ UNCHANGED <<costVars, laneVars>>

NextDispatch ==
  \/ \E t \in InitThreads : Invoke(t)
  \/ \E t \in InitThreads : StoreSetResidualCoeffs(t)
  \/ \E t \in InitThreads : StoreGetResidualCost(t)
  \/ \E r \in Readers : LoadSetResidualCoeffs(r)
  \/ \E r \in Readers : LoadGetResidualCost(r)

SpecDispatch == InitDispatch /\ [][NextDispatch]_vars

----------------------------------------------------------------------------
(* The precomputation of lines 64-85 on every int16_t value *)

Int16 == -32768 .. 32767

InitLanes ==
  /\ v \in Int16
  /\ lane = <<>>
  /\ CostOff
  /\ DispOff

\* lines 64-85 on a block holding v in all sixteen positions
PrecomputeLanes ==
  /\ lane = <<>>
  /\ lane' = Precompute([i \in Pos |-> v])
  /\ UNCHANGED v
  /\ UNCHANGED <<costVars, dispVars>>

NextLanes == PrecomputeLanes

SpecLanes == InitLanes /\ [][NextLanes]_vars

----------------------------------------------------------------------------
(* Properties of the scan detector and the cost estimator *)

Abs(x) == IF x < 0 THEN -x ELSE x

\* the scalar detector: reverse linear scan stopping at the first nonzero
RECURSIVE ScanDown(_, _)
ScanDown(cf, i) == IF i < 0 THEN -1 ELSE IF cf[i] # 0 THEN i ELSE ScanDown(cf, i - 1)

ZeroBelowFirst == \A i \in Pos : i < first => coeffs[i] = 0

\* the same block with the magnitude at k set to m, sign kept
Raised(k, m) == [coeffs EXCEPT ![k] = IF coeffs[k] < 0 THEN -m ELSE m]

\* detector, then estimator, on block b with this state's first and ctx0
CostOf(b) == GetResidualCostSSE2(ctx0, first, SetResidualCoeffsSSE2(b), b).cost

\* the cost row in use at position k: <<index, context>>
RowAt(k) == IF k = first THEN <<first, ctx0>>
            ELSE <<VP8EncBands[k], Min(Abs(coeffs[k - 1]), 2)>>

\* VP8LevelFixedCosts[m] + row[min(m, 67)]
LevelCost(row, m) == VP8LevelFixedCosts(m) + CostAt(row[1], row[2], Min(m, 67))

RECURSIVE SumLevels(_, _)
SumLevels(a, b) ==
  IF a > b THEN 0 ELSE LevelCost(RowAt(a), Abs(coeffs[a])) + SumLevels(a + 1, b)

\* C1: once SetResidualCoeffsSSE2 has run, last is the greatest index whose
\* coefficient is nonzero, or -1 if there is none, and equals the result of
\* the reverse linear scan.
C1_LastIsGreatestNonzero ==
  resCoeffs # NoBlock =>
    /\ last = ScanDown(coeffs, 15)
    /\ \/ last = -1 /\ \A i \in Pos : coeffs[i] = 0
       \/ last \in Pos /\ coeffs[last] # 0 /\ \A i \in Pos : i > last => coeffs[i] = 0

C1_Witness == pc = "detected" /\ last = 9 /\ coeffs[8] # 0

C3_DiffIsNonzeroBit ==
  (pc = "costed" /\ ctx0 = 0) =>
    \A c \in {1, 2} :
      cost - GetResidualCostSSE2(c, first, last, resCoeffs).cost
        = VP8BitCost(1, ProbAt(VP8EncBands[first], 0))

\* C3 amended: for a nonempty block the difference is the "is-nonzero" bit cost
\* at index first, context 0, plus the difference of the two initial cost rows
\* at the clamped level of position first; for an empty block it is the
\* difference of the two "no nonzero coefficient" costs.
C3_DiffExact ==
  (pc = "costed" /\ ctx0 = 0) =>
    \A c \in {1, 2} :
      cost - GetResidualCostSSE2(c, first, last, resCoeffs).cost
        = IF last < 0
            THEN VP8BitCost(0, ProbAt(first, 0)) - VP8BitCost(0, ProbAt(first, c))
            ELSE VP8BitCost(1, ProbAt(first, 0))
                 + CostAt(first, 0, Min(Abs(coeffs[first]), 67))
                 - CostAt(first, c, Min(Abs(coeffs[first]), 67))

C3_Witness == pc = "costed" /\ ctx0 = 0 /\ last > first /\ coeffs[first] # 0

\* C4 as stated: raising the magnitude of one coefficient (last recomputed)
\* never lowers the cost.
C4_Monotone ==
  (pc = "costed" /\ ZeroBelowFirst) =>
    \A k \in Pos : \A m \in Mags :
      (k >= first /\ m > Abs(coeffs[k])) => CostOf(Raised(k, m)) >= cost

\* C4 amended: raising a magnitude that is already at least 2, at a position
\* from first to last, changes the cost by exactly the change of
\* VP8LevelFixedCosts[m] + row[min(m, 67)] in the row of that position, so the
\* cost does not decrease exactly when that table entry does not.
C4_ChangeIsLevelCost ==
  (pc = "costed" /\ ZeroBelowFirst /\ last >= 0) =>
    \A k \in first .. last : \A m \in Mags :
      (Abs(coeffs[k]) >= 2 /\ m > Abs(coeffs[k])) =>
        LET d == LevelCost(RowAt(k), m) - LevelCost(RowAt(k), Abs(coeffs[k]))
        IN  /\ CostOf(Raised(k, m)) - cost = d
            /\ (CostOf(Raised(k, m)) >= cost) <=> (d >= 0)

C4_Witness ==
  /\ pc = "costed"
  /\ ZeroBelowFirst
  /\ last >= first + 2
  /\ Abs(coeffs[last - 1]) = 2

\* C7: for a block with first <= last the returned cost is the base cost (only
\* for ctx0 = 0), plus the level costs of positions first..last, each in the
\* row of its band and of the previous coefficient's context bucket, plus the
\* "no more coefficients" cost when last < 15.
C7_CostClosedForm ==
  (pc = "costed" /\ first <= last) =>
    cost = (IF ctx0 = 0 THEN VP8BitCost(1, ProbAt(first, ctx0)) ELSE 0)
           + SumLevels(first, last)
           + (IF last < 15
                THEN VP8BitCost(0, ProbAt(VP8EncBands[last + 1],
                                          Min(Abs(coeffs[last]), 2)))
                ELSE 0)

C7_Witness == pc = "costed" /\ first > 0 /\ last = 15 /\ coeffs[13] # 0 /\ ctx0 = 0

----------------------------------------------------------------------------
(* Properties of the dispatch initializer *)

\* C5: a reader whose read of the pair began after some initializer returned
\* loads the SSE2 implementation from both pointers.
C5_ReadAfterInitSeesSSE2 ==
  \A r \in DOMAIN rpc :
    rafter[r] =>
      /\ rpc[r] \in {"half", "read"} => rseen[r][1] = "SetResidualCoeffsSSE2"
      /\ rpc[r] = "read" => rseen[r][2] = "GetResidualCostSSE2"

C5_Witness ==
  \E r \in DOMAIN rpc : \E t \in DOMAIN ipc :
    rafter[r] /\ rpc[r] = "read" /\ ipc[t] = "line119"

\* C6: once one invocation has returned, no step of any further invocation
\* changes either pointer.
C6_Idempotent ==
  [][returned => /\ VP8SetResidualCoeffs' = VP8SetResidualCoeffs
                 /\ VP8GetResidualCost' = VP8GetResidualCost]_vars

C6_Witness ==
  /\ returned
  /\ \E t \in DOMAIN ipc : \E u \in DOMAIN ipc :
       t # u /\ ipc[t] = "line119" /\ ipc[u] = "line118"
  /\ VP8SetResidualCoeffs = "SetResidualCoeffsSSE2"
  /\ VP8GetResidualCost = "GetResidualCostSSE2"

----------------------------------------------------------------------------
(* Properties of the precomputation *)

\* C10: for every int16_t value v the precomputation yields ctxs = min(|v|, 2),
\* levels = min(|v|, 67) and abs_levels = |v| as an unsigned 16-bit value.
C10_PrecomputeIsClampedAbs ==
  lane # <<>> =>
    \A j \in Pos :
      /\ lane.ctxs[j] = Min(Abs(v), 2)
      /\ lane.levels[j] = Min(Abs(v), 67)
      /\ lane.abs_levels[j] = Abs(v)

C10_Witness == lane # <<>> /\ v = -32768 /\ lane.abs_levels[15] = 32768

====
